---- MODULE Spec2Model ----
(***************************************************************************)
(* Transaction ledger and running capital of the finance tracker, in its   *)
(* backend realizations:                                                   *)
(*   "nest"        NestJS + MongoDB, capital maintained incrementally      *)
(*                 (TransactionsService + CapitalService)                  *)
(*   "pg"          postgres-server.ts: validated, updateCapital throws     *)
(*   "cloud"       cloud-postgres-server.ts: unvalidated, updateCapital    *)
(*                 swallows its errors                                     *)
(*   "enhanced"    enhanced server: validated, updateCapital swallows      *)
(*   "cloudmem"    in-memory fallback handlers of cloud-postgres-server.ts *)
(*   "enhancedmem" in-memory fallback handlers of the enhanced server      *)
(*   "simple"      simple in-memory server (recompute after every write)   *)
(* Amounts are integers (minor units).  A request is served by a slot; an  *)
(* awaited store call is one step, so requests interleave at every await.  *)
(***************************************************************************)
EXTENDS Integers, Sequences, FiniteSets, TLC

\* ---------------------------------------------------------------- bounds
NumReq == 2
MaxOps == 3
MaxBrief == 2
MaxAmount == 2
MaxId == 2

VARIABLES
  backend,       \* which realization is running
  transactions,  \* the ledger: sequence of records, in insertion order
  capitalDocs,   \* the capital collection / table: sequence of values
  lastId,        \* last identifier handed out (ObjectId, SERIAL, uuid, Date.now())
  ops,           \* requests received so far
  req,           \* per slot, the request it serves:
                 \*   pc      the await the handler is suspended at
                 \*   kind    "create" | "update" | "delete" | "capital"
                 \*   doc     the document / row the handler holds locally
                 \*   old     oldType, oldAmount captured before the mutation
                 \*   total   the sum read by updateCapital's SELECT
                 \*   status  HTTP status of the response (0: none yet)
                 \*   ret     the capital value a GET /capital returned
                 \*   before  history: the capital collection when the request arrived
  expected       \* history: the initial capital plus the effective delta of
                 \* every applyTransactionDelta call that has completed

vars == <<backend, transactions, capitalDocs, lastId, ops, req, expected>>

store == <<transactions, capitalDocs, lastId>>

Reqs == 1..NumReq

Backends == {"nest", "pg", "cloud", "enhanced", "cloudmem", "enhancedmem", "simple"}
PgBackends == {"pg", "cloud", "enhanced"}
MemBackends == {"cloudmem", "enhancedmem", "simple"}

\* ---------------------------------------------------------------- values
\* Number(undefined): the value JavaScript computes for an absent amount.
NaN == -99

IsNaN(x) == x = NaN

Add(x, y) == IF IsNaN(x) \/ IsNaN(y) THEN NaN ELSE x + y

Neg(x) == IF IsNaN(x) THEN NaN ELSE 0 - x

\* a path parameter that is neither a number nor an ObjectId
MalformedId == 0

Ids == 1..MaxId

Types == {"income", "expense", "bogus"}

Amounts == (-1)..MaxAmount

NoBody == [x \in {} |-> 0]

Bodies ==
  {[type |-> t, amount |-> a] : t \in Types, a \in Amounts}
    \cup {[type |-> t] : t \in Types}
    \cup {[amount |-> a] : a \in Amounts}
    \cup {NoBody}

Has(b, f) == f \in DOMAIN b

\* req.body.type / req.body.amount as the handlers destructure them
Undefined == "undefined"

BodyType(b) == IF Has(b, "type") THEN b.type ELSE Undefined

\* Number(amount)
BodyNumber(b) == IF Has(b, "amount") THEN b.amount ELSE NaN

NoDoc == [id |-> 0, type |-> "", amount |-> 0]

NoOld == [type |-> "", amount |-> 0]

Idle ==
  [pc |-> "idle", kind |-> "", doc |-> NoDoc, old |-> NoOld,
   total |-> 0, status |-> 0, ret |-> 0, before |-> <<>>]

\* a request that has been answered
Responded(k, code) == [Idle EXCEPT !.pc = "done", !.kind = k, !.status = code]

RespondedWith(k, code, v) == [Responded(k, code) EXCEPT !.ret = v]

\* a request suspended at the await named label
Awaiting(k, label, d, o) ==
  [Idle EXCEPT !.pc = label, !.kind = k, !.doc = d, !.old = o, !.before = capitalDocs]

InFlight(r) == req[r].pc \notin {"idle", "done"}

\* a new request is served by the lowest slot that is not busy
Free(r) == ~InFlight(r) /\ \A q \in Reqs : q < r => InFlight(q)

Success(code) == code \in {200, 201, 204}

\* ---------------------------------------------------------------- ledger
RECURSIVE IndexFrom(_, _, _)
IndexFrom(txs, id, i) ==
  IF i > Len(txs) THEN 0
  ELSE IF txs[i].id = id THEN i ELSE IndexFrom(txs, id, i + 1)

\* findById / WHERE id = $n / findIndex: the first record with that id, 0 if none
IndexOfId(txs, id) == IndexFrom(txs, id, 1)

\* deleteOne / DELETE ... WHERE id / splice(index, 1)
RemoveAt(txs, i) == [j \in 1..(Len(txs) - 1) |-> IF j < i THEN txs[j] ELSE txs[j + 1]]

\* ------------------------------------------------- CapitalService (MongoDB)
\* a slip: the reverse option is ignored
DeltaIgnoringReverse(type, amount, reverse) ==
  (IF type = "income" THEN 1 ELSE -1) * amount

\* a slip: the sign of the kind is left out
DeltaIgnoringType(type, amount, reverse) ==
  (IF reverse THEN -1 ELSE 1) * amount

\* applyTransactionDelta: sign and direction of the increment
Delta(type, amount, reverse) ==
  (IF reverse THEN -1 ELSE 1) * (IF type = "income" THEN 1 ELSE -1) * amount

\* a slip: $set where $inc was meant
MongoSet(docs, delta) ==
  IF docs = <<>> THEN <<delta>> ELSE [docs EXCEPT ![1] = delta]

\* capitalModel.updateOne({}, { $inc: { value: delta } }, { upsert: true })
MongoInc(docs, delta) ==
  IF docs = <<>> THEN <<delta>> ELSE [docs EXCEPT ![1] = @ + delta]

ApplyTransactionDelta(docs, type, amount, reverse) ==
  MongoInc(docs, Delta(type, amount, reverse))

\* the effective delta of a call, spelled out case by case
EffectiveDelta(type, amount, reverse) ==
  IF type = "income"
  THEN (IF reverse THEN 0 - amount ELSE amount)
  ELSE (IF reverse THEN amount ELSE 0 - amount)

\* an awaited applyTransactionDelta call completes
Applies(type, amount, reverse) ==
  /\ capitalDocs' = ApplyTransactionDelta(capitalDocs, type, amount, reverse)
  /\ expected' = expected + EffectiveDelta(type, amount, reverse)

\* ------------------------------------------- TransactionsService (MongoDB)
\* the schema's validators: required, enum ['income', 'expense'], min: 0
SchemaValid(d) ==
  /\ d.type \in {"income", "expense"}
  /\ ~IsNaN(d.amount)
  /\ d.amount >= 0

\* update(): only the fields present in the dto are assigned
ApplyDto(existing, dto) ==
  [existing EXCEPT
     !.type = IF Has(dto, "type") THEN dto.type ELSE @,
     !.amount = IF Has(dto, "amount") THEN dto.amount ELSE @]

\* existing.save(): the modified paths are $set on the stored document
SaveModified(stored, loaded, local) ==
  [stored EXCEPT
     !.type = IF local.type # loaded.type THEN local.type ELSE @,
     !.amount = IF local.amount # loaded.amount THEN local.amount ELSE @]

\* create(): transactionModel.create({...}) runs: a ValidationError, or the
\* document is inserted and the handler awaits applyTransactionDelta
NestCreate(r, dto) ==
  /\ backend = "nest"
  /\ Free(r)
  /\ LET d == [id |-> lastId + 1, type |-> BodyType(dto), amount |-> BodyNumber(dto)]
     IN IF SchemaValid(d)
        THEN /\ transactions' = Append(transactions, d)
             /\ lastId' = lastId + 1
             /\ req' = [req EXCEPT ![r] = Awaiting("create", "applyDelta", d, NoOld)]
        ELSE /\ req' = [req EXCEPT ![r] = Responded("create", 500)]
             /\ UNCHANGED <<transactions, lastId>>
  /\ ops' = ops + 1
  /\ UNCHANGED <<backend, capitalDocs, expected>>

\* create(): await applyTransactionDelta(doc.type, doc.amount)
NestApplyDelta(r) ==
  /\ req[r].pc = "applyDelta"
  /\ Applies(req[r].doc.type, req[r].doc.amount, FALSE)
  /\ req' = [req EXCEPT ![r] = Responded("create", 201)]
  /\ UNCHANGED <<backend, transactions, lastId, ops>>

\* update(): findById runs (CastError, NotFoundException), old type and amount
\* are captured, the dto is applied and the handler awaits save()
NestUpdate(r, id, dto) ==
  /\ backend = "nest"
  /\ Free(r)
  /\ LET i == IndexOfId(transactions, id)
     IN req' = IF id = MalformedId
               THEN [req EXCEPT ![r] = Responded("update", 500)]
               ELSE IF i = 0
               THEN [req EXCEPT ![r] = Responded("update", 404)]
               ELSE [req EXCEPT ![r] =
                       Awaiting("update", "save",
                                ApplyDto(transactions[i], dto),
                                [type |-> transactions[i].type,
                                 amount |-> transactions[i].amount])]
  /\ ops' = ops + 1
  /\ UNCHANGED <<backend, store, expected>>

\* existing.save(): ValidationError, DocumentNotFoundError, or the write
NestSave(r) ==
  /\ req[r].pc = "save"
  /\ LET i == IndexOfId(transactions, req[r].doc.id)
     IN IF SchemaValid(req[r].doc) /\ i # 0
        THEN /\ transactions' =
                  [transactions EXCEPT ![i] =
                     SaveModified(@, [req[r].doc EXCEPT !.type = req[r].old.type,
                                                        !.amount = req[r].old.amount],
                                  req[r].doc)]
             /\ req' = [req EXCEPT ![r].pc = "reverseOld"]
        ELSE /\ req' = [req EXCEPT ![r] = Responded("update", 500)]
             /\ UNCHANGED transactions
  /\ UNCHANGED <<backend, capitalDocs, lastId, ops, expected>>

\* a slip: the edit applies the new values without reversing the old ones
NestReverseOldForgotten(r) ==
  /\ req[r].pc = "reverseOld"
  /\ req' = [req EXCEPT ![r].pc = "applyNew"]
  /\ UNCHANGED <<backend, store, ops, expected>>

\* a slip: the old values are read from the stored document when reconcileEdit
\* runs, not taken from what the request captured
NestReverseOldFromStore(r) ==
  /\ req[r].pc = "reverseOld"
  /\ LET i == IndexOfId(transactions, req[r].doc.id)
     IN IF i = 0
        THEN Applies(req[r].old.type, req[r].old.amount, TRUE)
        ELSE Applies(transactions[i].type, transactions[i].amount, TRUE)
  /\ req' = [req EXCEPT ![r].pc = "applyNew"]
  /\ UNCHANGED <<backend, transactions, lastId, ops>>

\* reconcileEdit: await applyTransactionDelta(oldType, oldAmount, { reverse: true })
NestReverseOld(r) ==
  /\ req[r].pc = "reverseOld"
  /\ Applies(req[r].old.type, req[r].old.amount, TRUE)
  /\ req' = [req EXCEPT ![r].pc = "applyNew"]
  /\ UNCHANGED <<backend, transactions, lastId, ops>>

\* a slip: the new values are applied with the old kind
NestApplyNewWithOldKind(r) ==
  /\ req[r].pc = "applyNew"
  /\ Applies(req[r].old.type, req[r].doc.amount, FALSE)
  /\ req' = [req EXCEPT ![r] = Responded(req[r].kind, 200)]
  /\ UNCHANGED <<backend, transactions, lastId, ops>>

\* reconcileEdit: await applyTransactionDelta(newType, newAmount)
NestApplyNew(r) ==
  /\ req[r].pc = "applyNew"
  /\ Applies(req[r].doc.type, req[r].doc.amount, FALSE)
  /\ req' = [req EXCEPT ![r] = Responded(req[r].kind, 200)]
  /\ UNCHANGED <<backend, transactions, lastId, ops>>

\* delete(): findById runs and the handler awaits existing.deleteOne()
NestDelete(r, id) ==
  /\ backend = "nest"
  /\ Free(r)
  /\ LET i == IndexOfId(transactions, id)
     IN req' = IF id = MalformedId
               THEN [req EXCEPT ![r] = Responded("delete", 500)]
               ELSE IF i = 0
               THEN [req EXCEPT ![r] = Responded("delete", 404)]
               ELSE [req EXCEPT ![r] = Awaiting("delete", "deleteOne", transactions[i], NoOld)]
  /\ ops' = ops + 1
  /\ UNCHANGED <<backend, store, expected>>

\* existing.deleteOne(): removes the document if it is still stored
NestDeleteOne(r) ==
  /\ req[r].pc = "deleteOne"
  /\ LET i == IndexOfId(transactions, req[r].doc.id)
     IN transactions' = IF i = 0 THEN transactions ELSE RemoveAt(transactions, i)
  /\ req' = [req EXCEPT ![r].pc = "reverseDeleted"]
  /\ UNCHANGED <<backend, capitalDocs, lastId, ops, expected>>

\* a slip: the deleted record's delta is applied again instead of reversed
NestReverseDeletedForward(r) ==
  /\ req[r].pc = "reverseDeleted"
  /\ Applies(req[r].doc.type, req[r].doc.amount, FALSE)
  /\ req' = [req EXCEPT ![r] = Responded("delete", 200)]
  /\ UNCHANGED <<backend, transactions, lastId, ops>>

\* delete(): await applyTransactionDelta(existing.type, existing.amount, { reverse: true })
NestReverseDeleted(r) ==
  /\ req[r].pc = "reverseDeleted"
  /\ Applies(req[r].doc.type, req[r].doc.amount, TRUE)
  /\ req' = [req EXCEPT ![r] = Responded("delete", 200)]
  /\ UNCHANGED <<backend, transactions, lastId, ops>>

\* a slip: get() without the lazy initialisation answers not found
NestGetCapitalStrict(r) ==
  /\ backend = "nest"
  /\ Free(r)
  /\ req' = IF capitalDocs # <<>>
            THEN [req EXCEPT ![r] = RespondedWith("capital", 200, capitalDocs[1])]
            ELSE [req EXCEPT ![r] = Responded("capital", 404)]
  /\ ops' = ops + 1
  /\ UNCHANGED <<backend, store, expected>>

\* get(): ensureOne() runs capitalModel.findOne()
NestGetCapital(r) ==
  /\ backend = "nest"
  /\ Free(r)
  /\ req' = IF capitalDocs # <<>>
            THEN [req EXCEPT ![r] = RespondedWith("capital", 200, capitalDocs[1])]
            ELSE [req EXCEPT ![r] = Awaiting("capital", "createCapital", NoDoc, NoOld)]
  /\ ops' = ops + 1
  /\ UNCHANGED <<backend, store, expected>>

\* ensureOne(): capitalModel.create({ value: 0 })
NestCreateCapital(r) ==
  /\ req[r].pc = "createCapital"
  /\ capitalDocs' = Append(capitalDocs, 0)
  /\ req' = [req EXCEPT ![r] = RespondedWith("capital", 200, 0)]
  /\ UNCHANGED <<backend, transactions, lastId, ops, expected>>

\* the first store call of a request rejects: the exception reaches the framework
NestFirstCallFails(r, k) ==
  /\ backend = "nest"
  /\ Free(r)
  /\ req' = [req EXCEPT ![r] = Responded(k, 500)]
  /\ ops' = ops + 1
  /\ UNCHANGED <<backend, store, expected>>

\* a slip: a compensating delete of the record the request holds
NestCallFailsCompensating(r) ==
  /\ backend = "nest"
  /\ InFlight(r)
  /\ LET i == IndexOfId(transactions, req[r].doc.id)
     IN transactions' = IF i = 0 THEN transactions ELSE RemoveAt(transactions, i)
  /\ req' = [req EXCEPT ![r] = Responded(req[r].kind, 500)]
  /\ UNCHANGED <<backend, capitalDocs, lastId, ops, expected>>

\* a later awaited store call rejects: nothing catches it
NestCallFails(r) ==
  /\ backend = "nest"
  /\ InFlight(r)
  /\ req' = [req EXCEPT ![r] = Responded(req[r].kind, 500)]
  /\ UNCHANGED <<backend, store, ops, expected>>

\* ------------------------------------------------------ Express handlers
\* validateTransaction: the violated rules (type, amount), all in one list
ValidationErrors(b) ==
  (IF ~Has(b, "type") \/ BodyType(b) \notin {"income", "expense"}
   THEN {"Type must be either \"income\" or \"expense\""} ELSE {})
  \cup
  (IF ~Has(b, "amount") \/ BodyNumber(b) = 0 \/ IsNaN(BodyNumber(b)) \/ BodyNumber(b) < 0
   THEN {"Amount must be a positive number"} ELSE {})

\* the servers whose POST and PATCH handlers call validateTransaction
Validates(b) == b \in {"pg", "enhanced", "enhancedmem"}

\* the servers whose updateCapital catches its own errors and returns 0
Swallows(b) == b \in {"cloud", "enhanced"}

\* the record the handlers build from the request body
FromBody(id, b) == [id |-> id, type |-> BodyType(b), amount |-> BodyNumber(b)]

\* res.json(...) / res.status(204).send()
OkStatus(k) == IF k = "delete" THEN 204 ELSE 200

\* ------------------------------------------------------------ PostgreSQL
\* NOT NULL and CHECK constraints of table transactions (NaN >= 0 in numeric)
TableCheck(row) ==
  /\ row.type \in {"income", "expense"}
  /\ (IsNaN(row.amount) \/ row.amount >= 0)

RECURSIVE PgSumOfIncomes(_)
\* a slip: the expenses are left out of the sum
PgSumOfIncomes(txs) ==
  IF txs = <<>> THEN 0
  ELSE Add(IF Head(txs).type = "income" THEN Head(txs).amount ELSE 0,
           PgSumOfIncomes(Tail(txs)))

RECURSIVE PgSignedSum(_)
\* updateCapital's SELECT COALESCE(SUM(CASE ...), 0)
PgSignedSum(txs) ==
  IF txs = <<>> THEN 0
  ELSE Add(IF Head(txs).type = "income" THEN Head(txs).amount
           ELSE IF Head(txs).type = "expense" THEN Neg(Head(txs).amount)
           ELSE 0,
           PgSignedSum(Tail(txs)))

\* a slip: the difference to the stored value is stored
PgDiffCapital(rows, value) == [i \in DOMAIN rows |-> Add(value, Neg(rows[i]))]

\* a slip: the recomputed sum is added to the stored value
PgAddCapital(rows, value) == [i \in DOMAIN rows |-> Add(rows[i], value)]

\* UPDATE capital SET value = $1 (no WHERE clause)
PgSetCapital(rows, value) == [i \in DOMAIN rows |-> value]

\* POST /transactions: validation, then the INSERT runs
PgPost(r, b) ==
  /\ backend \in PgBackends
  /\ Free(r)
  /\ IF Validates(backend) /\ ValidationErrors(b) # {}
     THEN /\ req' = [req EXCEPT ![r] = Responded("create", 400)]
          /\ UNCHANGED <<transactions, lastId>>
     ELSE /\ lastId' = lastId + 1
          /\ IF TableCheck(FromBody(lastId + 1, b))
             THEN /\ transactions' = Append(transactions, FromBody(lastId + 1, b))
                  /\ req' = [req EXCEPT ![r] = Awaiting("create", "selectSum", FromBody(lastId + 1, b), NoOld)]
             ELSE /\ req' = [req EXCEPT ![r] = Responded("create", 500)]
                  /\ UNCHANGED transactions
  /\ ops' = ops + 1
  /\ UNCHANGED <<backend, capitalDocs, expected>>

\* PATCH /transactions/:id: id and body validation, then the UPDATE runs
PgPatch(r, id, b) ==
  /\ backend \in PgBackends
  /\ Free(r)
  /\ LET i == IndexOfId(transactions, id)
     IN IF Validates(backend) /\ (id = MalformedId \/ ValidationErrors(b) # {})
        THEN /\ req' = [req EXCEPT ![r] = Responded("update", 400)]
             /\ UNCHANGED transactions
        ELSE IF id = MalformedId
        THEN /\ req' = [req EXCEPT ![r] = Responded("update", 500)]
             /\ UNCHANGED transactions
        ELSE IF i = 0
        THEN /\ req' = [req EXCEPT ![r] = Responded("update", 404)]
             /\ UNCHANGED transactions
        ELSE IF ~TableCheck(FromBody(id, b))
        THEN /\ req' = [req EXCEPT ![r] = Responded("update", 500)]
             /\ UNCHANGED transactions
        ELSE /\ transactions' = [transactions EXCEPT ![i] = FromBody(id, b)]
             /\ req' = [req EXCEPT ![r] =
                          Awaiting("update", "selectSum", FromBody(id, b),
                                   \* history: the row as it was before the UPDATE
                                   [type |-> transactions[i].type,
                                    amount |-> transactions[i].amount])]
  /\ ops' = ops + 1
  /\ UNCHANGED <<backend, capitalDocs, lastId, expected>>

\* DELETE /transactions/:id: id validation, then the DELETE runs
PgDelete(r, id) ==
  /\ backend \in PgBackends
  /\ Free(r)
  /\ LET i == IndexOfId(transactions, id)
     IN IF Validates(backend) /\ id = MalformedId
        THEN /\ req' = [req EXCEPT ![r] = Responded("delete", 400)]
             /\ UNCHANGED transactions
        ELSE IF id = MalformedId
        THEN /\ req' = [req EXCEPT ![r] = Responded("delete", 500)]
             /\ UNCHANGED transactions
        ELSE IF i = 0
        THEN /\ req' = [req EXCEPT ![r] = Responded("delete", 404)]
             /\ UNCHANGED transactions
        ELSE /\ transactions' = RemoveAt(transactions, i)
             /\ req' = [req EXCEPT ![r] = Awaiting("delete", "selectSum", transactions[i], NoOld)]
  /\ ops' = ops + 1
  /\ UNCHANGED <<backend, capitalDocs, lastId, expected>>

\* updateCapital: the SELECT of the signed sum
PgSelectSum(r) ==
  /\ req[r].pc = "selectSum"
  /\ req' = [req EXCEPT ![r].pc = "updateCapital", ![r].total = PgSignedSum(transactions)]
  /\ UNCHANGED <<backend, store, ops, expected>>

\* updateCapital: the UPDATE of the capital row, then the response
PgUpdateCapital(r) ==
  /\ req[r].pc = "updateCapital"
  /\ capitalDocs' = PgSetCapital(capitalDocs, req[r].total)
  /\ req' = [req EXCEPT ![r] =
               RespondedWith(req[r].kind, OkStatus(req[r].kind),
                             IF req[r].kind = "recompute" THEN req[r].total ELSE 0)]
  /\ UNCHANGED <<backend, transactions, lastId, ops, expected>>

\* GET /capital: SELECT value as capital FROM capital LIMIT 1
PgGetCapital(r) ==
  /\ backend \in PgBackends
  /\ Free(r)
  /\ req' = IF capitalDocs # <<>>
            THEN [req EXCEPT ![r] = RespondedWith("capital", 200, capitalDocs[1])]
            ELSE [req EXCEPT ![r] = Responded("capital", 500)]
  /\ ops' = ops + 1
  /\ UNCHANGED <<backend, store, expected>>

\* a slip: the error of the handler's query is caught around the query alone
\* and the handler goes on to updateCapital
PgQueryFailsCaughtEarly(r, k) ==
  /\ backend \in PgBackends
  /\ Free(r)
  /\ req' = [req EXCEPT ![r] = Awaiting(k, "selectSum", NoDoc, NoOld)]
  /\ ops' = ops + 1
  /\ UNCHANGED <<backend, store, expected>>

\* the handler's own query (INSERT, UPDATE, DELETE, SELECT value) throws, for
\* a request that passed the handler's validation: the catch answers 500
PgQueryFails(r, k) ==
  /\ backend \in PgBackends
  /\ Free(r)
  /\ req' = [req EXCEPT ![r] = Responded(k, 500)]
  /\ ops' = ops + 1
  /\ UNCHANGED <<backend, store, expected>>

\* a query of updateCapital throws: caught inside updateCapital (the handler
\* goes on to answer), or propagated to the handler's catch
PgUpdateCapitalFails(r) ==
  /\ backend \in PgBackends
  /\ InFlight(r)
  /\ req' = [req EXCEPT ![r] =
               Responded(req[r].kind,
                         IF Swallows(backend) THEN OkStatus(req[r].kind) ELSE 500)]
  /\ UNCHANGED <<backend, store, ops, expected>>

\* -------------------------------------------------------------- in memory
RECURSIVE MemSignedSum(_)
\* transactions.reduce((sum, t) => sum + (t.type === 'income' ? t.amount : -t.amount), 0)
MemSignedSum(txs) ==
  IF txs = <<>> THEN 0
  ELSE Add(IF Head(txs).type = "income" THEN Head(txs).amount ELSE Neg(Head(txs).amount),
           MemSignedSum(Tail(txs)))

\* the simple server recomputes after every write; the fallbacks increment
Recomputes(b) == b = "simple"

\* uuidv4() is fresh; Date.now() repeats within one millisecond
NewIds(b, last) ==
  IF b \in {"cloudmem", "simple"} /\ last >= 1 THEN {last, last + 1} ELSE {last + 1}

\* capital += type === 'income' ? Number(amount) : -Number(amount)
MemAdd(cap, type, amount) ==
  Add(cap, IF type = "income" THEN amount ELSE Neg(amount))

\* capital -= transaction.type === 'income' ? transaction.amount : -transaction.amount
MemSubtract(cap, type, amount) ==
  Add(cap, Neg(IF type = "income" THEN amount ELSE Neg(amount)))

\* the record a PATCH leaves: { ...old, type, amount: Number(amount), ... } or
\* { ...old, ...req.body, amount: Number(req.body.amount), ... }
MemPatched(bk, t, b) ==
  [t EXCEPT
     !.id = IF bk = "enhancedmem" /\ Has(b, "_id") THEN b._id ELSE @,
     !.type = IF bk = "enhancedmem" /\ ~Has(b, "type") THEN @ ELSE BodyType(b),
     !.amount = BodyNumber(b)]

\* POST /transactions
MemPost(r, b) ==
  /\ backend \in MemBackends
  /\ Free(r)
  /\ IF Validates(backend) /\ ValidationErrors(b) # {}
     THEN /\ req' = [req EXCEPT ![r] = Responded("create", 400)]
          /\ UNCHANGED store
     ELSE \E id \in NewIds(backend, lastId) :
            /\ transactions' = Append(transactions, FromBody(id, b))
            /\ lastId' = id
            /\ capitalDocs' =
                 IF Recomputes(backend)
                 THEN <<MemSignedSum(transactions')>>
                 ELSE <<MemAdd(capitalDocs[1], BodyType(b), BodyNumber(b))>>
            /\ req' = [req EXCEPT ![r] = Responded("create", 200)]
  /\ ops' = ops + 1
  /\ UNCHANGED <<backend, expected>>

\* PATCH /transactions/:id
MemPatch(r, id, b) ==
  /\ backend \in MemBackends
  /\ Free(r)
  /\ LET i == IndexOfId(transactions, id)
     IN IF Validates(backend) /\ ValidationErrors(b) # {}
        THEN /\ req' = [req EXCEPT ![r] = Responded("update", 400)]
             /\ UNCHANGED store
        ELSE IF i = 0
        THEN /\ req' = [req EXCEPT ![r] = Responded("update", 404)]
             /\ UNCHANGED store
        ELSE /\ transactions' =
                  [transactions EXCEPT ![i] = MemPatched(backend, @, b)]
             /\ capitalDocs' = <<MemSignedSum(transactions')>>
             /\ req' = [req EXCEPT ![r] = Responded("update", 200)]
             /\ UNCHANGED lastId
  /\ ops' = ops + 1
  /\ UNCHANGED <<backend, expected>>

\* DELETE /transactions/:id
MemDelete(r, id) ==
  /\ backend \in MemBackends
  /\ Free(r)
  /\ LET i == IndexOfId(transactions, id)
     IN IF i = 0
        THEN /\ req' = [req EXCEPT ![r] = Responded("delete", 404)]
             /\ UNCHANGED store
        ELSE /\ transactions' = RemoveAt(transactions, i)
             /\ capitalDocs' =
                  IF Recomputes(backend)
                  THEN <<MemSignedSum(transactions')>>
                  ELSE <<MemSubtract(capitalDocs[1], transactions[i].type,
                                     transactions[i].amount)>>
             /\ req' = [req EXCEPT ![r] = Responded("delete", 204)]
             /\ UNCHANGED lastId
  /\ ops' = ops + 1
  /\ UNCHANGED <<backend, expected>>

\* GET /capital
MemGetCapital(r) ==
  /\ backend \in MemBackends
  /\ Free(r)
  /\ req' = [req EXCEPT ![r] = RespondedWith("capital", 200, capitalDocs[1])]
  /\ ops' = ops + 1
  /\ UNCHANGED <<backend, store, expected>>

\* ------------------------------------------- CapitalService, called directly
\* applyTransactionDelta(type, amount, opts) called by a client of the service
ServiceApplyTransactionDelta(r, type, amount, reverse) ==
  /\ backend = "nest"
  /\ Free(r)
  /\ Applies(type, amount, reverse)
  /\ req' = [req EXCEPT ![r] = Responded("applyTransactionDelta", 200)]
  /\ ops' = ops + 1
  /\ UNCHANGED <<backend, transactions, lastId>>

\* reconcileEdit(oldType, oldAmount, newType, newAmount) called by a client:
\* its first applyTransactionDelta runs, the second is awaited
ServiceReconcileEdit(r, oldType, oldAmount, newType, newAmount) ==
  /\ backend = "nest"
  /\ Free(r)
  /\ Applies(oldType, oldAmount, TRUE)
  /\ req' = [req EXCEPT ![r] =
               Awaiting("reconcileEdit", "applyNew",
                        [id |-> 0, type |-> newType, amount |-> newAmount],
                        [type |-> oldType, amount |-> oldAmount])]
  /\ ops' = ops + 1
  /\ UNCHANGED <<backend, transactions, lastId>>

\* ---------------------------------------------------------------- system
PathIds == Ids \cup {MalformedId}

Kinds == {"create", "update", "delete", "capital"}

\* the capital collection is empty until first use; initDatabase inserts the
\* capital row; the in-memory servers start with let capital = 0
InitialCapital(b) == IF b = "nest" THEN <<>> ELSE <<0>>

\* the state after startup of one of the servers in bs
Started(bs) ==
  /\ backend \in bs
  /\ transactions = <<>>
  /\ capitalDocs = InitialCapital(backend)
  /\ lastId = 0
  /\ ops = 0
  /\ req = [r \in Reqs |-> Idle]
  /\ expected = 0

Init == Started(Backends)

\* the servers that validate what they store (schema validators, or
\* validateTransaction)
Validated == {"nest", "pg", "enhanced", "enhancedmem"}

\* the servers that await a store
StoreBacked == {"nest"} \cup PgBackends

\* a request arrives and runs up to its first await (or to its response)
ArriveNest(r) ==
  \/ \E b \in Bodies : NestCreate(r, b)
  \/ \E id \in PathIds, b \in Bodies : NestUpdate(r, id, b)
  \/ \E id \in PathIds : NestDelete(r, id)
  \/ NestGetCapital(r)

ArrivePg(r) ==
  \/ \E b \in Bodies : PgPost(r, b)
  \/ \E id \in PathIds, b \in Bodies : PgPatch(r, id, b)
  \/ \E id \in PathIds : PgDelete(r, id)
  \/ PgGetCapital(r)

ArriveMem(r) ==
  \/ \E b \in Bodies : MemPost(r, b)
  \/ \E id \in PathIds, b \in Bodies : MemPatch(r, id, b)
  \/ \E id \in PathIds : MemDelete(r, id)
  \/ MemGetCapital(r)

\* a suspended request resumes at its await
ResumeNest(r) ==
  \/ NestApplyDelta(r)
  \/ NestSave(r)
  \/ NestReverseOld(r)
  \/ NestApplyNew(r)
  \/ NestDeleteOne(r)
  \/ NestReverseDeleted(r)
  \/ NestCreateCapital(r)

ResumePg(r) ==
  \/ PgSelectSum(r)
  \/ PgUpdateCapital(r)

\* a store call rejects
ArriveFailing(r) ==
  \/ \E k \in Kinds : NestFirstCallFails(r, k)
  \/ \E k \in Kinds : PgQueryFails(r, k)

ResumeFailing(r) ==
  \/ NestCallFails(r)
  \/ PgUpdateCapitalFails(r)

Quiet == \A r \in Reqs : ~InFlight(r)

\* validating servers; requests served one at a time, every store call succeeding
NextSeq ==
  \E r \in Reqs :
    \/ ops < MaxOps /\ Quiet /\ ArriveNest(r)
    \/ ops < MaxOps /\ Quiet /\ ArrivePg(r)
    \/ ops < MaxOps /\ Quiet /\ ArriveMem(r)
    \/ ResumeNest(r)
    \/ ResumePg(r)

SpecSeq == Started(Validated) /\ [][NextSeq]_vars

\* store-backed servers; requests interleave at every await, every store
\* call succeeding
NextConc ==
  \E r \in Reqs :
    \/ ops < MaxOps /\ ArriveNest(r)
    \/ ops < MaxOps /\ ArrivePg(r)
    \/ ResumeNest(r)
    \/ ResumePg(r)

SpecConc == Started(StoreBacked) /\ [][NextConc]_vars

\* store-backed servers; requests served one at a time, any store call may reject
NextFail ==
  \E r \in Reqs :
    \/ ops < MaxOps /\ Quiet /\ ArriveNest(r)
    \/ ops < MaxOps /\ Quiet /\ ArrivePg(r)
    \/ ops < MaxOps /\ Quiet /\ ArriveFailing(r)
    \/ ResumeNest(r)
    \/ ResumePg(r)
    \/ ResumeFailing(r)

SpecFail == Started(StoreBacked) /\ [][NextFail]_vars

\* CapitalService on a capital collection that is empty or holds one
\* document, over a brief run; its methods are called concurrently
InitService ==
  /\ backend = "nest"
  /\ transactions = <<>>
  /\ capitalDocs \in {<<>>} \cup {<<c>> : c \in (-1)..1}
  /\ lastId = 0
  /\ ops = 0
  /\ req = [r \in Reqs |-> Idle]
  /\ expected = IF capitalDocs = <<>> THEN 0 ELSE capitalDocs[1]

NextService ==
  \E r \in Reqs :
    \/ /\ ops < MaxBrief
       /\ \E type \in {"income", "expense"}, amount \in 0..MaxAmount, reverse \in BOOLEAN :
            ServiceApplyTransactionDelta(r, type, amount, reverse)
    \/ /\ ops < MaxBrief
       /\ \E oldType \in {"income", "expense"}, oldAmount \in 0..MaxAmount,
             newType \in {"income", "expense"}, newAmount \in 0..MaxAmount :
            ServiceReconcileEdit(r, oldType, oldAmount, newType, newAmount)
    \/ ops < MaxBrief /\ NestGetCapital(r)
    \/ NestApplyNew(r)
    \/ NestCreateCapital(r)

SpecService == InitService /\ [][NextService]_vars

\* CapitalService with its methods called one after the other
NextServiceSeq ==
  \E r \in Reqs :
    \/ /\ ops < MaxOps /\ Quiet
       /\ \E type \in {"income", "expense"}, amount \in 0..MaxAmount, reverse \in BOOLEAN :
            ServiceApplyTransactionDelta(r, type, amount, reverse)
    \/ /\ ops < MaxOps /\ Quiet
       /\ \E oldType \in {"income", "expense"}, oldAmount \in 0..MaxAmount,
             newType \in {"income", "expense"}, newAmount \in 0..MaxAmount :
            ServiceReconcileEdit(r, oldType, oldAmount, newType, newAmount)
    \/ ops < MaxOps /\ Quiet /\ NestGetCapital(r)
    \/ NestApplyNew(r)
    \/ NestCreateCapital(r)

SpecServiceSeq == InitService /\ [][NextServiceSeq]_vars

\* every server, over a brief run; requests interleave at every await, any
\* store call may reject
Next ==
  \E r \in Reqs :
    \/ ops < MaxBrief /\ ArriveNest(r)
    \/ ops < MaxBrief /\ ArrivePg(r)
    \/ ops < MaxBrief /\ ArriveMem(r)
    \/ ops < MaxBrief /\ ArriveFailing(r)
    \/ ResumeNest(r)
    \/ ResumePg(r)
    \/ ResumeFailing(r)

Spec == Init /\ [][Next]_vars

\* ------------------------------------------- startup without PostgreSQL
\* cloud-postgres-server and the enhanced server whose initDatabase() rejected
FallbackModes == {"cloudfallback", "enhancedfallback"}

ServerOf(b) == IF b = "cloudfallback" THEN "cloud" ELSE "enhanced"

\* the handlers of every route, in registration order: the PostgreSQL ones at
\* module level, the in-memory ones inside initDatabase().catch
Registered(b) == <<"pg", "mem">>

\* Express runs the first handler registered for a route; each of these
\* handlers ends the response and none calls next()
Serving(b) == Head(Registered(b))

\* a request reaches the server: the PostgreSQL handler validates (enhanced
\* server) and awaits pool.query
FallbackArrive(r, k, id, b) ==
  /\ backend \in FallbackModes
  /\ Free(r)
  /\ Serving(backend) = "pg"
  /\ req' = [req EXCEPT ![r] =
               IF /\ Validates(ServerOf(backend))
                  /\ \/ k \in {"update", "delete"} /\ id = MalformedId
                     \/ k \in {"create", "update"} /\ ValidationErrors(b) # {}
               THEN Responded(k, 400)
               ELSE Awaiting(k, "query", NoDoc, NoOld)]
  /\ ops' = ops + 1
  /\ UNCHANGED <<backend, store, expected>>

\* pool.query rejects (no database): the handler's catch answers 500
FallbackQueryRejects(r) ==
  /\ backend \in FallbackModes
  /\ req[r].pc = "query"
  /\ req' = [req EXCEPT ![r] = Responded(req[r].kind, 500)]
  /\ UNCHANGED <<backend, store, ops, expected>>

\* servers started without a reachable database, requests interleaved
NextFallback ==
  \E r \in Reqs :
    \/ ops < MaxOps /\ \E k \in Kinds, id \in PathIds, b \in Bodies : FallbackArrive(r, k, id, b)
    \/ FallbackQueryRejects(r)

SpecFallback == Started(FallbackModes) /\ [][NextFallback]_vars

\* the servers that recompute the capital after every write: the PostgreSQL
\* servers (updateCapital's queries may reject) and the simple server;
\* requests served one at a time
Recomputing == PgBackends \cup {"simple"}

NextRecompute ==
  \E r \in Reqs :
    \/ ops < MaxBrief /\ Quiet /\ ArrivePg(r)
    \/ ops < MaxBrief /\ Quiet /\ ArriveMem(r)
    \/ ops < MaxBrief /\ Quiet /\ \E k \in Kinds : PgQueryFails(r, k)
    \/ ResumePg(r)
    \/ PgUpdateCapitalFails(r)

SpecRecompute == Started(Recomputing) /\ [][NextRecompute]_vars

\* updateCapital() called on its own: the n-th call is recorded in slot n, its
\* return value (return capital) in ret
UpdateCapitalCall(r) ==
  /\ backend \in PgBackends
  /\ r = ops + 1
  /\ req' = [req EXCEPT ![r] = Awaiting("recompute", "selectSum", NoDoc, NoOld)]
  /\ ops' = ops + 1
  /\ UNCHANGED <<backend, store, expected>>

\* the rows of table transactions: what the CHECK constraints admit
Rows(ids) == [id : ids, type : {"income", "expense"}, amount : 0..MaxAmount]

\* a PostgreSQL server holding any ledger of up to two rows and any capital
InitRecomputeCalls ==
  /\ backend \in PgBackends
  /\ transactions \in {<<>>} \cup {<<a>> : a \in Rows({1})}
                      \cup {<<a, b>> : a \in Rows({1}), b \in Rows({2})}
  /\ capitalDocs \in {<<c>> : c \in (-1)..MaxAmount}
  /\ lastId = Len(transactions)
  /\ ops = 0
  /\ req = [r \in Reqs |-> Idle]
  /\ expected = 0

\* calls of updateCapital one after the other, with no ledger write
NextRecomputeCalls ==
  \E r \in Reqs :
    \/ Quiet /\ UpdateCapitalCall(r)
    \/ ResumePg(r)

SpecRecomputeCalls == InitRecomputeCalls /\ [][NextRecomputeCalls]_vars

\* request bodies that carry an _id field besides the transaction's fields
BodiesWithId ==
  {[f \in DOMAIN b \cup {"_id"} |-> IF f = "_id" THEN i ELSE b[f]] :
     b \in Bodies, i \in Ids}

\* PATCH /transactions/:id whose body names an _id
PatchWithId(r) ==
  \E id \in Ids, b \in BodiesWithId :
    \/ NestUpdate(r, id, b)
    \/ PgPatch(r, id, b)
    \/ MemPatch(r, id, b)

\* every server, requests served one at a time, bodies with and without _id
NextPatchFields ==
  \E r \in Reqs :
    \/ ops < MaxBrief /\ Quiet /\ ArriveNest(r)
    \/ ops < MaxBrief /\ Quiet /\ ArrivePg(r)
    \/ ops < MaxBrief /\ Quiet /\ ArriveMem(r)
    \/ ops < MaxBrief /\ Quiet /\ PatchWithId(r)
    \/ ResumeNest(r)
    \/ ResumePg(r)

SpecPatchFields == Init /\ [][NextPatchFields]_vars

\* ------------------------------------------------------- GET /transactions
\* createdAt / created_at of a record: stamped once, when the record is
\* inserted, from the clock that also orders the identifiers; no handler of
\* the listing servers writes it afterwards
CreatedAt(t) == t.id

RECURSIVE InsertDesc(_, _)
\* t placed in the sorted sequence srt behind every record whose createdAt
\* is not earlier than its own (a stable sort keeps ties in their order)
InsertDesc(srt, t) ==
  IF srt = <<>> THEN <<t>>
  ELSE IF CreatedAt(Head(srt)) >= CreatedAt(t)
       THEN <<Head(srt)>> \o InsertDesc(Tail(srt), t)
       ELSE <<t>> \o srt

\* a slip: the records are left in insertion order
InsertionOrder(txs) == txs

RECURSIVE SortByCreatedAtDesc(_)
\* .sort({ createdAt: -1 }) / ORDER BY created_at DESC /
\* .sort((a, b) => new Date(b.createdAt) - new Date(a.createdAt))
SortByCreatedAtDesc(txs) ==
  IF txs = <<>> THEN <<>>
  ELSE InsertDesc(SortByCreatedAtDesc(SubSeq(txs, 1, Len(txs) - 1)), txs[Len(txs)])

\* the limit query parameter: '1', '0', '-1', or not a number ('abc')
Limits == {1, 0, -1, NaN}

\* req.query: type and limit, each present or absent
Queries ==
  {[type |-> t, limit |-> l] : t \in Types, l \in Limits}
    \cup {[type |-> t] : t \in Types}
    \cup {[limit |-> l] : l \in Limits}
    \cup {NoBody}

MatchesType(t, type) == t.type = type

\* if (type && ['income', 'expense'].includes(type)) ... type = $n
WithType(txs, type) ==
  IF type \in {"income", "expense"}
  THEN SelectSeq(txs, LAMBDA t : MatchesType(t, type))
  ELSE txs

\* const { limit = '50' } = req.query
DefaultLimit == 50

\* parseInt(limit)
ParsedLimit(q) == IF Has(q, "limit") THEN q.limit ELSE DefaultLimit

\* LIMIT n
Take(txs, n) == SubSeq(txs, 1, IF n < Len(txs) THEN n ELSE Len(txs))

\* findAll(): find().sort({ createdAt: -1 }).lean(); the query string is not read
NestFindAll(r) ==
  /\ backend = "nest"
  /\ Free(r)
  /\ req' = [req EXCEPT ![r] =
               RespondedWith("list", 200, SortByCreatedAtDesc(transactions))]
  /\ ops' = ops + 1
  /\ UNCHANGED <<backend, store, expected>>

\* GET /transactions of the PostgreSQL servers: PostgreSQL rejects LIMIT NaN
\* and a negative LIMIT; the cloud server's query has no WHERE and no LIMIT
PgList(r, q) ==
  /\ backend \in PgBackends
  /\ Free(r)
  /\ req' = [req EXCEPT ![r] =
               IF backend = "cloud"
               THEN RespondedWith("list", 200, SortByCreatedAtDesc(transactions))
               ELSE IF IsNaN(ParsedLimit(q)) \/ ParsedLimit(q) < 0
               THEN Responded("list", 500)
               ELSE RespondedWith("list", 200,
                      Take(SortByCreatedAtDesc(WithType(transactions, BodyType(q))),
                           ParsedLimit(q)))]
  /\ ops' = ops + 1
  /\ UNCHANGED <<backend, store, expected>>

\* GET /transactions of the in-memory servers: Array.prototype.sort sorts the
\* array it is called on, which is the ledger itself unless a filter copied it
MemList(r, q) ==
  /\ backend \in MemBackends
  /\ Free(r)
  /\ LET filtered == IF backend = "enhancedmem"
                     THEN WithType(transactions, BodyType(q))
                     ELSE transactions
     IN /\ req' = [req EXCEPT ![r] =
                     RespondedWith("list", 200, SortByCreatedAtDesc(filtered))]
        /\ transactions' =
             IF backend = "enhancedmem" /\ BodyType(q) \in {"income", "expense"}
             THEN transactions
             ELSE SortByCreatedAtDesc(transactions)
  /\ ops' = ops + 1
  /\ UNCHANGED <<backend, capitalDocs, lastId, expected>>

\* a GET /transactions arrives and is answered
ArriveList(r) ==
  \/ NestFindAll(r)
  \/ \E q \in Queries : PgList(r, q)
  \/ \E q \in Queries : MemList(r, q)

\* the servers whose List the ordering and limit rules name
Listing == {"nest", "pg", "enhanced", "simple"}

\* up to MaxBrief writes and MaxOps requests in all, served one at a time
NextList ==
  \E r \in Reqs :
    \/ ops < MaxBrief /\ Quiet /\ ArriveNest(r)
    \/ ops < MaxBrief /\ Quiet /\ ArrivePg(r)
    \/ ops < MaxBrief /\ Quiet /\ ArriveMem(r)
    \/ ops < MaxOps /\ Quiet /\ ArriveList(r)
    \/ ResumeNest(r)
    \/ ResumePg(r)

SpecList == Started(Listing) /\ [][NextList]_vars

\* the Nest server holding one transaction and the capital it gave
InitEdits ==
  /\ backend = "nest"
  /\ transactions \in {<<t>> : t \in Rows({1})}
  /\ capitalDocs = <<Delta(transactions[1].type, transactions[1].amount, FALSE)>>
  /\ lastId = 1
  /\ ops = 0
  /\ req = [r \in Reqs |-> Idle]
  /\ expected = capitalDocs[1]

\* Updates of the stored transaction, with bodies its validators accept,
\* interleave at every await
NextEdits ==
  \E r \in Reqs :
    \/ /\ ops < MaxBrief
       /\ \E dto \in Bodies :
            /\ SchemaValid(ApplyDto(transactions[1], dto))
            /\ NestUpdate(r, transactions[1].id, dto)
    \/ NestSave(r)
    \/ NestReverseOld(r)
    \/ NestApplyNew(r)

\* the stored transaction has the largest amount
InitLargest ==
  /\ backend = "nest"
  /\ transactions \in {<<t>> : t \in {row \in Rows({1}) : row.amount = MaxAmount}}
  /\ capitalDocs = <<Delta(transactions[1].type, transactions[1].amount, FALSE)>>
  /\ lastId = 1
  /\ ops = 0
  /\ req = [r \in Reqs |-> Idle]
  /\ expected = capitalDocs[1]

SpecEdits == InitLargest /\ [][NextEdits]_vars

\* Deletes sent to the Nest server holding one transaction interleave at
\* every await
NextDeletes ==
  \E r \in Reqs :
    \/ ops < MaxBrief /\ \E id \in Ids : NestDelete(r, id)
    \/ NestDeleteOne(r)
    \/ NestReverseDeleted(r)

SpecDeletes == InitEdits /\ [][NextDeletes]_vars

\* every server: Creates and reads of the capital interleave at every await
NextCapitalReads ==
  \E r \in Reqs :
    \/ ops < MaxBrief /\ \E b \in Bodies : NestCreate(r, b)
    \/ ops < MaxBrief /\ \E b \in Bodies : PgPost(r, b)
    \/ ops < MaxBrief /\ \E b \in Bodies : MemPost(r, b)
    \/ ops < MaxBrief /\ NestGetCapital(r)
    \/ ops < MaxBrief /\ PgGetCapital(r)
    \/ ops < MaxBrief /\ MemGetCapital(r)
    \/ NestApplyDelta(r)
    \/ NestCreateCapital(r)
    \/ ResumePg(r)

SpecCapitalReads == Init /\ [][NextCapitalReads]_vars

\* ================================================================ claims
\* the stored capital: what GET /capital reads (0 before first use)
CapitalValue == IF capitalDocs = <<>> THEN 0 ELSE capitalDocs[1]

RECURSIVE SignedTotal(_)
\* +amount for every income, -amount for every expense
SignedTotal(txs) ==
  IF txs = <<>> THEN 0
  ELSE (IF Head(txs).type = "income" THEN Head(txs).amount
        ELSE IF Head(txs).type = "expense" THEN 0 - Head(txs).amount
        ELSE 0)
       + SignedTotal(Tail(txs))

\* C1: with requests served one at a time and no failing step, whenever no
\* request is in flight the stored capital equals the signed sum of the
\* existing transactions, in the incremental, the recompute and the
\* in-memory fallback realization.
C1_CapitalIsSignedSum ==
  Quiet => CapitalValue = SignedTotal(transactions)

\* a create, a create and a delete have been served and one record is left
C1_Witness ==
  /\ backend = "nest"
  /\ Quiet
  /\ req[1].kind = "delete"
  /\ Success(req[1].status)
  /\ Len(transactions) = 1
  /\ CapitalValue # 0

\* C2: in the incremental realization, for every interleaving of concurrent
\* create, update and delete requests, once none is in flight the stored
\* capital equals the signed sum of the transactions in the ledger.
C2_QuiescentCapitalIsSignedSum ==
  (backend = "nest" /\ Quiet) => CapitalValue = SignedTotal(transactions)

\* C3: in the recompute realization, for every interleaving of concurrent
\* POST, PATCH and DELETE requests, once all have completed the capital row
\* equals the signed sum of the transactions in the ledger.
C3_QuiescentCapitalRowIsSignedSum ==
  (backend \in {"pg", "enhanced"} /\ Quiet) => CapitalValue = SignedTotal(transactions)

\* C4: no increment is lost: the stored capital is always the initial value
\* plus the effective delta of every applyTransactionDelta call completed so
\* far, whatever the interleaving of the calls.
C4_NoIncrementLost ==
  CapitalValue = expected

\* an applyTransactionDelta call has completed between the two increments of
\* a reconcileEdit that is still in flight
C4_Witness ==
  /\ req[1].pc = "applyNew"
  /\ req[1].kind = "reconcileEdit"
  /\ req[2].kind = "applyTransactionDelta"
  /\ req[2].status = 200
  /\ CapitalValue # 0

\* C5: reconcileEdit changes the capital in one atomic step: no get() reads
\* the capital while a reconcileEdit has applied the reversal of the old
\* amount but not yet the new amount.
C5_NoReadBetweenReversalAndApplication ==
  [][\A g \in Reqs :
       (NestGetCapital(g) /\ req'[g].pc = "done")
         => ~\E u \in Reqs : /\ req[u].pc = "applyNew"
                              /\ req[u].old.amount # 0
                              /\ req[u].doc.amount # 0]_vars

\* the awaited capital update of request r rejects
CapitalUpdateFails(r) ==
  \/ /\ req[r].pc \in {"applyDelta", "reverseOld", "applyNew", "reverseDeleted"}
     /\ NestCallFails(r)
  \/ PgUpdateCapitalFails(r)

\* the record a create inserted is in the ledger as inserted
Inserted(q, txs) ==
  /\ IndexOfId(txs, q.doc.id) # 0
  /\ txs[IndexOfId(txs, q.doc.id)] = q.doc

\* C6: a Create inserts into the ledger before it touches the capital: while
\* it awaits its capital update the record is in the ledger and the capital
\* has its pre-request value; when the capital update fails the record
\* stays, the capital keeps its pre-request value and nothing else changes.
C6_CreateInsertsBeforeCapital ==
  [][\A r \in Reqs :
       /\ (req'[r].kind = "create" /\ req'[r].pc \notin {"idle", "done"})
            => (Inserted(req'[r], transactions') /\ capitalDocs' = req'[r].before)
       /\ (req[r].kind = "create" /\ CapitalUpdateFails(r))
            => /\ transactions' = transactions
               /\ Inserted(req[r], transactions')
               /\ capitalDocs' = req[r].before
               /\ lastId' = lastId]_vars

\* the only request so far was a create whose capital update failed
C6_Witness ==
  /\ ops = 1
  /\ req[1].kind = "create"
  /\ req[1].pc = "done"
  /\ req[1].status = 500
  /\ Len(transactions) = 1
  /\ capitalDocs = InitialCapital(backend)

\* the ledger write of request r (create / save / deleteOne, INSERT / UPDATE /
\* DELETE) rejects
LedgerWriteFails(r) ==
  \/ NestFirstCallFails(r, "create")
  \/ /\ req[r].pc \in {"save", "deleteOne"}
     /\ NestCallFails(r)
  \/ \E k \in {"create", "update", "delete"} : PgQueryFails(r, k)

\* C7: when the ledger write of a Create, Update or Delete fails, the
\* request ends there with an error: no capital update follows and the
\* stored capital (and the ledger) is unchanged.
C7_LedgerFailureAborts ==
  [][\A r \in Reqs :
       LedgerWriteFails(r)
         => /\ req'[r].pc = "done"
            /\ req'[r].status = 500
            /\ capitalDocs' = capitalDocs
            /\ transactions' = transactions]_vars

\* the only request so far was a validated POST whose INSERT failed
C7_Witness ==
  /\ backend = "pg"
  /\ ops = 1
  /\ req[1].kind = "create"
  /\ req[1].status = 500
  /\ transactions = <<>>
  /\ capitalDocs = <<0>>

\* C8: when the capital update fails after the ledger write succeeded, the
\* request is not answered with a success status and the ledger write stays.
C8_CapitalFailureIsReported ==
  [][\A r \in Reqs :
       CapitalUpdateFails(r)
         => /\ ~Success(req'[r].status)
            /\ transactions' = transactions]_vars

\* an Update or Delete of path id runs its lookup in request slot r
LooksUp(r, id, b) ==
  \/ NestUpdate(r, id, b)
  \/ NestDelete(r, id)
  \/ PgPatch(r, id, b)
  \/ PgDelete(r, id)
  \/ MemPatch(r, id, b)
  \/ MemDelete(r, id)

\* C9: an Update or Delete of an id that is not in the ledger is
\* answered 404 and leaves the ledger records and the capital unchanged.
C9_MissingIdIsNotFound ==
  [][\A r \in Reqs, id \in PathIds, b \in Bodies :
       (IndexOfId(transactions, id) = 0 /\ LooksUp(r, id, b))
         => /\ req'[r].status = 404
            /\ transactions' = transactions
            /\ capitalDocs' = capitalDocs]_vars

\* C10: a Create whose kind is not income or expense, or whose amount is
\* negative, is answered 400, creates no record and leaves the capital
\* unchanged, on every server.
C10_InvalidCreateIsRejected ==
  [][\A r \in Reqs, b \in Bodies :
       /\ BodyType(b) \notin {"income", "expense"} \/ (Has(b, "amount") /\ b.amount < 0)
       /\ NestCreate(r, b) \/ PgPost(r, b) \/ MemPost(r, b)
       => /\ req'[r].status = 400
          /\ transactions' = transactions
          /\ capitalDocs' = capitalDocs]_vars

\* the request body carries a kind of {income, expense} and an amount >= 0
ValidInput(b) ==
  /\ BodyType(b) \in {"income", "expense"}
  /\ Has(b, "amount")
  /\ b.amount >= 0

\* C11: on the servers that call validateTransaction, a Create is rejected
\* with 400 exactly when its kind is not income or expense or its amount is
\* not a number >= 0; every other Create, amount 0 included, is accepted and
\* recorded.
C11_CreateRejectedExactlyWhenInvalid ==
  [][\A r \in Reqs, b \in Bodies :
       (Validates(backend) /\ (PgPost(r, b) \/ MemPost(r, b)))
         => IF ValidInput(b)
            THEN /\ req'[r].status # 400
                 /\ Len(transactions') = Len(transactions) + 1
            ELSE /\ req'[r].status = 400
                 /\ transactions' = transactions]_vars

\* every field the body supplies is a value a record may hold
SuppliedFieldsValid(b) ==
  /\ Has(b, "type") => b.type \in {"income", "expense"}
  /\ Has(b, "amount") => b.amount > 0

\* the fields kind and amount that body b omits are in record new as in old
OmittedKept(b, old, new) ==
  /\ ~Has(b, "type") => new.type = old.type
  /\ ~Has(b, "amount") => new.amount = old.amount

\* C12: Update is partial: for an existing record and a body that supplies
\* valid values for a subset of the fields, the request is not rejected and
\* every field the body omits keeps the value it had.
C12_UpdateIsPartial ==
  [][\A r \in Reqs, id \in Ids, b \in Bodies :
       LET i == IndexOfId(transactions, id)
       IN (i # 0 /\ SuppliedFieldsValid(b))
            => /\ NestUpdate(r, id, b)
                    => /\ req'[r].pc = "save"
                       /\ OmittedKept(b, transactions[i], req'[r].doc)
               /\ (PgPatch(r, id, b) \/ MemPatch(r, id, b))
                    => /\ req'[r].status \notin {400, 500}
                       /\ IndexOfId(transactions', id) = i
                       /\ OmittedKept(b, transactions[i], transactions'[i])]_vars

\* +amount of an income, -amount of an expense
Signed(t) == IF t.type = "income" THEN t.amount ELSE 0 - t.amount

\* the capital value held by a capital collection (0 while it is empty)
ValueOf(docs) == IF docs = <<>> THEN 0 ELSE docs[1]

\* C13: with requests served one at a time, a successful Update changes the
\* stored capital by exactly sign(new)*newAmount - sign(old)*oldAmount, new
\* being the record's values after the mutation.
C13_UpdateChangesCapitalByNetDelta ==
  [][\A r \in Reqs :
       /\ (/\ req[r].kind = "update"
           /\ InFlight(r)
           /\ req'[r].pc = "done"
           /\ Success(req'[r].status))
            => ValueOf(capitalDocs') =
                 ValueOf(req[r].before) + Signed(req[r].doc) - Signed(req[r].old)
       /\ (/\ backend \in MemBackends
           /\ Free(r)
           /\ ops' = ops + 1
           /\ req'[r].kind = "update"
           /\ Success(req'[r].status))
            => \E i \in 1..Len(transactions) :
                 /\ \A j \in 1..Len(transactions) \ {i} : transactions'[j] = transactions[j]
                 /\ CapitalValue' =
                      CapitalValue + Signed(transactions'[i]) - Signed(transactions[i])]_vars

\* an Update has just succeeded and left an expense that the capital reflects
C13_Witness ==
  /\ Quiet
  /\ ops = 2
  /\ req[1].kind = "update"
  /\ Success(req[1].status)
  /\ Len(transactions) = 1
  /\ transactions[1].type = "expense"
  /\ transactions[1].amount = 2
  /\ CapitalValue = -2

\* C14: in the Nest services, the simple server and the enhanced fallback,
\* every record in the ledger has a kind of {income, expense} and an amount
\* that is a number >= 0.
C14_RecordsAreValid ==
  \A i \in 1..Len(transactions) :
    backend \in {"nest", "simple", "enhancedmem"} =>
    /\ transactions[i].type \in {"income", "expense"}
    /\ ~IsNaN(transactions[i].amount)
    /\ transactions[i].amount >= 0

\* C15: a server started without a reachable PostgreSQL answers from the
\* in-memory handlers: no request is answered 500 and every GET /capital
\* that has been answered was answered 200.
C15_FallbackServesFromMemory ==
  backend \in FallbackModes =>
    \A r \in Reqs :
      req[r].pc = "done" =>
        /\ req[r].status # 500
        /\ req[r].kind = "capital" => req[r].status = 200

\* C16: get() / GET /capital returns the stored value when a capital
\* instance exists; when none exists it creates one with value 0 and returns
\* 0 without error; the read never changes the stored capital value.
C16_GetReadsOrInitialises ==
  [][\A r \in Reqs :
       /\ (NestGetCapital(r) \/ PgGetCapital(r) \/ MemGetCapital(r))
            => /\ capitalDocs' = capitalDocs
               /\ IF capitalDocs # <<>>
                  THEN /\ req'[r].pc = "done"
                       /\ req'[r].status = 200
                       /\ req'[r].ret = capitalDocs[1]
                  ELSE req'[r].pc = "createCapital"
       /\ NestCreateCapital(r)
            => /\ req'[r].pc = "done"
               /\ req'[r].status = 200
               /\ req'[r].ret = 0
               /\ Len(capitalDocs') = Len(capitalDocs) + 1
               /\ capitalDocs'[Len(capitalDocs')] = 0
               /\ ValueOf(capitalDocs') = ValueOf(capitalDocs)]_vars

\* the first request was a get() on an empty collection: it created the
\* instance and returned 0
C16_Witness ==
  /\ backend = "nest"
  /\ ops = 1
  /\ req[1].kind = "capital"
  /\ req[1].pc = "done"
  /\ req[1].status = 200
  /\ req[1].ret = 0
  /\ capitalDocs = <<0>>

\* C17: at most one capital instance (document or row) exists in every
\* reachable state, also when get() and applyTransactionDelta are called
\* concurrently while none exists.
C17_AtMostOneCapitalInstance == Len(capitalDocs) <= 1

\* C18: applyTransactionDelta(type, amount, {reverse}) changes the stored
\* capital by exactly (reverse ? -1 : 1) * (income ? +1 : -1) * amount and
\* changes nothing else.
C18_ApplyDeltaIsExact ==
  [][\A r \in Reqs, type \in {"income", "expense"}, amount \in 0..MaxAmount,
        reverse \in BOOLEAN :
       ServiceApplyTransactionDelta(r, type, amount, reverse)
         => /\ ValueOf(capitalDocs') =
                 ValueOf(capitalDocs) + EffectiveDelta(type, amount, reverse)
            /\ Len(capitalDocs') = IF capitalDocs = <<>> THEN 1 ELSE Len(capitalDocs)
            /\ \A i \in 2..Len(capitalDocs) : capitalDocs'[i] = capitalDocs[i]
            /\ transactions' = transactions
            /\ lastId' = lastId
            /\ \A q \in Reqs \ {r} : req'[q] = req[q]]_vars

\* one call on a capital of 1 has raised it to 3
C18_Witness ==
  /\ ops = 1
  /\ req[1].kind = "applyTransactionDelta"
  /\ req[1].status = 200
  /\ capitalDocs = <<3>>

\* C19: reconcileEdit(oldKind, oldAmount, newKind, newAmount) first changes
\* the capital as applyTransactionDelta(oldKind, oldAmount, reverse) does
\* and, when the capital was not changed in between, leaves it at its
\* starting value plus sign(new)*newAmount - sign(old)*oldAmount.
C19_ReconcileEditIsReverseThenApply ==
  [][\A r \in Reqs :
       /\ \A oldType \in {"income", "expense"}, oldAmount \in 0..MaxAmount,
             newType \in {"income", "expense"}, newAmount \in 0..MaxAmount :
            ServiceReconcileEdit(r, oldType, oldAmount, newType, newAmount)
              => /\ capitalDocs' =
                      ApplyTransactionDelta(capitalDocs, oldType, oldAmount, TRUE)
                 /\ req'[r].pc = "applyNew"
       /\ (/\ req[r].kind = "reconcileEdit"
           /\ NestApplyNew(r)
           /\ capitalDocs =
                ApplyTransactionDelta(req[r].before, req[r].old.type,
                                      req[r].old.amount, TRUE))
            => /\ capitalDocs' =
                    ApplyTransactionDelta(capitalDocs, req[r].doc.type,
                                          req[r].doc.amount, FALSE)
               /\ ValueOf(capitalDocs') =
                    ValueOf(req[r].before) + Signed(req[r].doc) - Signed(req[r].old)]_vars

\* one reconcileEdit has completed and taken the capital from 1 to -3
C19_Witness ==
  /\ ops = 1
  /\ req[1].kind = "reconcileEdit"
  /\ req[1].pc = "done"
  /\ expected = -3
  /\ capitalDocs = <<-3>>

\* request r, a write of the given kind, is answered with success in this step
Completes(r, k) ==
  /\ req[r].kind = k
  /\ InFlight(r)
  /\ req'[r].pc = "done"
  /\ Success(req'[r].status)

RECURSIVE AmountsOf(_, _)
\* the sum of the amounts of the records of txs that are incomes (income =
\* TRUE) or are not (income = FALSE)
AmountsOf(txs, income) ==
  IF txs = <<>> THEN 0
  ELSE (IF (Head(txs).type = "income") = income THEN Head(txs).amount ELSE 0)
       + AmountsOf(Tail(txs), income)

\* the signed sum of a ledger: incomes minus the rest
LedgerSum(txs) == AmountsOf(txs, TRUE) - AmountsOf(txs, FALSE)

\* every amount in the ledger is a number
Numeric(txs) == \A i \in 1..Len(txs) : ~IsNaN(txs[i].amount)

\* C21: with requests served one at a time, recompute (updateCapital) reads
\* the signed sum of all ledger records (0 for an empty ledger) and
\* overwrites the stored capital with it, whatever the capital was before.
C21_RecomputeOverwritesWithSum ==
  [][\A r \in Reqs :
       /\ (PgSelectSum(r) /\ Numeric(transactions))
            => req'[r].total = LedgerSum(transactions)
       /\ (PgUpdateCapital(r) /\ Numeric(transactions))
            => capitalDocs' = <<LedgerSum(transactions)>>
       /\ (backend = "simple" /\ transactions' # transactions /\ Numeric(transactions'))
            => capitalDocs' = <<LedgerSum(transactions')>>
       /\ (transactions = <<>> /\ PgSelectSum(r)) => req'[r].total = 0]_vars

\* a recompute has read the sum 3 of two incomes while the stored capital is
\* still 0: the capital update of the first write had failed
C21_Witness ==
  /\ backend = "pg"
  /\ req[1].pc = "updateCapital"
  /\ req[1].total = 3
  /\ Len(transactions) = 2
  /\ capitalDocs = <<0>>

\* C22: recompute is idempotent: a call of updateCapital that follows another
\* with no ledger write in between returns the same value and leaves the
\* same stored capital.
C22_RecomputeIsIdempotent ==
  [][\A r \in Reqs :
       (r >= 2 /\ req[r].kind = "recompute" /\ PgUpdateCapital(r))
         => /\ req[r - 1].kind = "recompute" /\ req[r - 1].pc = "done"
            /\ req'[r].ret = req[r - 1].ret
            /\ capitalDocs' = capitalDocs
            /\ transactions' = transactions]_vars

\* a second call has returned 3 over a ledger of two rows
C22_Witness ==
  /\ req[1].pc = "done" /\ req[1].kind = "recompute"
  /\ req[2].pc = "done" /\ req[2].kind = "recompute"
  /\ req[2].ret = 3
  /\ Len(transactions) = 2

\* C23: every transaction in the ledger has an identifier different from
\* every other one's, whatever the sequence and timing of Creates.
C23_IdentifiersAreUnique ==
  \A i, j \in 1..Len(transactions) :
    i # j => transactions[i].id # transactions[j].id

Listed(r) == req[r].ret

ListAnswered(r) == req[r].pc = "done" /\ req[r].kind = "list" /\ req[r].status = 200

\* C25: List returns transactions of the ledger ordered by creation time
\* descending: of any two returned records the one created later comes first.
C25_ListIsNewestFirst ==
  \A r \in Reqs :
    ListAnswered(r)
      => /\ \A i, j \in 1..Len(Listed(r)) :
              CreatedAt(Listed(r)[i]) > CreatedAt(Listed(r)[j]) => i < j
         /\ \A i \in 1..Len(Listed(r)) :
              \E k \in 1..Len(transactions) : transactions[k] = Listed(r)[i]

\* a List has returned two records, the later one first
C25_Witness ==
  \E r \in Reqs :
    /\ ListAnswered(r)
    /\ Len(Listed(r)) = 2
    /\ CreatedAt(Listed(r)[1]) > CreatedAt(Listed(r)[2])

\* the limit a List is to apply: the one asked for when it is a positive
\* number, 50 otherwise
ClampedLimit(q) ==
  IF Has(q, "limit") /\ ~IsNaN(q.limit) /\ q.limit > 0 THEN q.limit ELSE DefaultLimit

\* C26: a List succeeds and returns at most limit records, limit being 50
\* when it is absent, not a number, zero or negative.
C26_ListClampsLimit ==
  [][\A r \in Reqs, q \in Queries :
       (NestFindAll(r) \/ PgList(r, q))
         => /\ req'[r].status = 200
            /\ Len(req'[r].ret) <= ClampedLimit(q)]_vars

\* request r is an Update between its findById and its response
InEdit(r) == req[r].kind = "update" /\ InFlight(r)

\* C27: of two concurrent Updates of one id each calls reconcileEdit with
\* the old kind and amount it read itself before mutating and with the new
\* kind and amount of the document its own save returned: what a request
\* captured is what the ledger held when it read, no other request's step
\* changes it, and its two capital increments reverse and apply exactly it.
C27_EditUsesOwnSnapshots ==
  [][\A r \in Reqs :
       /\ (~InEdit(r) /\ InEdit(r)')
            => LET t == transactions[IndexOfId(transactions, req'[r].doc.id)]
               IN /\ req'[r].old = [type |-> t.type, amount |-> t.amount]
                  /\ \E dto \in Bodies :
                       /\ req'[r].doc.type = (IF Has(dto, "type") THEN dto.type ELSE t.type)
                       /\ req'[r].doc.amount =
                            (IF Has(dto, "amount") THEN dto.amount ELSE t.amount)
       /\ (InEdit(r) /\ InEdit(r)')
            => req'[r].old = req[r].old /\ req'[r].doc = req[r].doc
       /\ NestReverseOld(r)
            => ValueOf(capitalDocs') = ValueOf(capitalDocs) - Signed(req[r].old)
       /\ (NestApplyNew(r) /\ req[r].kind = "update")
            => ValueOf(capitalDocs') = ValueOf(capitalDocs) + Signed(req[r].doc)]_vars

\* one Update of record 1 has been answered while another, which saved
\* before it, still holds its own values and awaits its second increment
C27_Witness ==
  /\ req[1].pc = "done" /\ req[1].kind = "update" /\ req[1].status = 200
  /\ req[2].pc = "applyNew" /\ req[2].kind = "update"
  /\ req[2].doc.id = 1
  /\ Len(transactions) = 1
  /\ transactions[1].amount # req[2].doc.amount

\* C28: concurrent Deletes of one existing id reverse its delta exactly
\* once: once the only record is deleted and every Delete has been answered,
\* the capital it had raised or lowered is back at 0.
C28_DeleteReversesOnce ==
  (Quiet /\ transactions = <<>>) => CapitalValue = 0

\* C29: the capital effect of an Update through reconcileEdit is
\* all-or-nothing under failure:
\* when an Update is answered, the capital is what it was when the Update
\* arrived or that value changed by the full net delta, never by the
\* reversal of the old values alone.
C29_EditIsAllOrNothing ==
  [][\A r \in Reqs :
       (backend = "nest" /\ InEdit(r) /\ req'[r].pc = "done")
         => ValueOf(capitalDocs') \in
              {ValueOf(req[r].before),
               ValueOf(req[r].before) - Signed(req[r].old) + Signed(req[r].doc)}]_vars

\* C30: drift is repaired by the next recompute: with requests served one at
\* a time, whenever a write's updateCapital succeeds the stored capital
\* equals the signed sum of the ledger, also when an earlier write's capital
\* update had failed after its ledger write.
C30_NextRecomputeRepairsDrift ==
  [][\A r \in Reqs :
       (PgUpdateCapital(r) /\ Numeric(transactions') /\ \A q \in Reqs \ {r} : ~InFlight(q))
         => CapitalValue' = SignedTotal(transactions')]_vars

\* an Update that arrived while the capital was 0 over a ledger holding a
\* positive amount is about to store the sum it read
C30_Witness ==
  \E r \in Reqs :
    /\ backend = "pg"
    /\ req[r].kind = "update"
    /\ req[r].pc = "updateCapital"
    /\ req[r].before = <<0>>
    /\ capitalDocs = <<0>>
    /\ req[r].total # 0
    /\ req[r].old.amount > 0

====
